---- MODULE Spec2Model ----
(***************************************************************************)
(* Model of the smsdrop SDK: the token stores (storages.py), the two       *)
(* authenticated request flows (smsdrop.py and client.py, both named       *)
(* Client._send_request), Campaign.update / launch_campaign /              *)
(* refresh_campaign, and the construction of a Campaign (models.py), which *)
(* has a specification of its own, SpecCampaign.                           *)
(*                                                                         *)
(* Every store operation and every HTTP round trip is one step of the      *)
(* client that performs it, so that clients sharing a store interleave at  *)
(* exactly the places where the code touches the store or the network.     *)
(*                                                                         *)
(* The modules constants, exceptions/errors and the decorator              *)
(* log_request_error are imported by the sources but are not among them:   *)
(* the decorator is taken to pass errors through, the value of             *)
(* ACCESS_TOKEN_STORAGE_KEY is a placeholder, and client.py is run on the   *)
(* storage classes of storages.py.  The remote API is the environment: it  *)
(* answers every request with any status the client tells apart.           *)
(***************************************************************************)
EXTENDS Integers, Sequences, FiniteSets, TLC

\* ------------------------------------------------------------------ bounds
MaxCalls == 2          \* public calls started over a run (all clients together)
MaxTokens == 5         \* tokens the login endpoint issues over a run
MaxSenderLen == 13     \* longest sender a Campaign is constructed with
MaxRecipients == 2     \* longest recipient_list a Campaign is constructed with

\* --------------------------------------------------------------- constants
None == 0              \* Python None where a token is expected
NoHeader == -1         \* no Authorization header on the http client
NONE == "None"         \* Python None in a Campaign field
UNSET == "unset"       \* attribute never assigned (reading it raises AttributeError)

OK == 200
CREATED == 201
BAD_REQUEST == 400
UNAUTHORIZED == 401
NOT_FOUND == 404
UNPROCESSABLE_ENTITY == 422
SERVER_ERROR == 500

stop_after_attempt == 2

DeferByNone == -1      \* defer_by left at its default, None (0 is a delay of zero)

Clients == {1, 2}
Impls == {"smsdrop", "client"}
Kinds == {"Dummy", "SimpleDict", "Redis"}
ACCESS_TOKEN_STORAGE_KEY == "access_token"
Keys == {"bearer_token_p1", "bearer_token_p2", ACCESS_TOKEN_STORAGE_KEY}
LoginStatuses == {OK, BAD_REQUEST, SERVER_ERROR}
Ops == {"read_me", "read_campaign", "launch_campaign", "refresh_campaign"}

VARIABLES
  impl,       \* which Client the run uses: smsdrop.py or client.py
  kind,       \* the storage class plugged in
  store,      \* the contents of the (shared) storage: key -> token or None
  email,      \* email[c]: the account of client c
  password,   \* password[c]
  pc,         \* pc[c]: where client c stands
  attempt,    \* attempt[c]: tenacity's attempt number (0 during construction)
  hdr,        \* hdr[c]: the Authorization header of c's http client
  tmp,        \* tmp[c]: the local variable `token` of _refresh_token / get_access_token
  op,         \* op[c]: the public method in progress (or last called)
  result,     \* result[c]: how the last public call (or construction) ended
  campaign,   \* campaign[c]: the Campaign object passed to launch_campaign
  sent,       \* sent[c]: the body of the response _send_request returned
  returned,   \* returned[c]: the status of the response _send_request returned (0: none)
  lastWrite,  \* lastWrite[k]: the value the last successful set (or expiry) left under k
  trace,      \* trace[c]: store operations and requests of the current call, in order
  logins,     \* logins[c]: login requests sent by c since construction began
  targets,    \* targets[c]: target requests sent by c since construction
  nextTok,    \* the next token the login endpoint will issue
  methods,    \* the public methods the callers of this run use
  nCalls,     \* public calls started so far
  args,       \* the arguments a Campaign is being constructed from
  obj,        \* the outcome of that construction: the object, or the error raised
  payload,    \* the JSON body launch_campaign handed to _send_request
  issuedTo    \* issuedTo[t]: the email of the account the login endpoint issued token t to

vars == <<impl, kind, store, email, password, pc, attempt, hdr, tmp, op, result,
          campaign, sent, returned, lastWrite, trace, logins, targets, nextTok, methods, nCalls,
          args, obj, payload, issuedTo>>

\* ------------------------------------------------------------- token store
\* A call of a storage method: the number of positional arguments after self
\* and the keyword arguments.  Each class accepts the calls its signature allows.
Dummy_accepts(npos, kws) == TRUE
SimpleDict_set_accepts(npos, kws) == npos = 2 /\ kws = {}
Redis_set_accepts(npos, kws) ==
  \/ npos = 2 /\ kws = {"ex"}
  \/ npos = 3 /\ kws = {}

set_accepts(k, npos, kws) ==
  CASE k = "Dummy" -> Dummy_accepts(npos, kws)
    [] k = "SimpleDict" -> SimpleDict_set_accepts(npos, kws)
    [] k = "Redis" -> Redis_set_accepts(npos, kws)

\* storage.get(key): the value read.
storage_get(k, s, key) == IF k = "Dummy" THEN None ELSE s[key]

\* storage.set(...): the error raised ("" when none): a call the signature does
\* not allow is a TypeError; redis-py refuses a None value with a DataError.
storage_set_error(k, npos, kws, value) ==
  IF ~set_accepts(k, npos, kws) THEN "TypeError"
  ELSE IF k = "Redis" /\ value = None THEN "DataError"
  ELSE ""

\* storage.set(...): the contents afterwards.
storage_set(k, s, key, value) ==
  IF k = "Dummy" THEN s ELSE [s EXCEPT ![key] = value]

\* storage.delete(key): dict.pop(key) raises KeyError on a missing key.
storage_delete_error(k, s, key) ==
  IF k = "SimpleDict" /\ s[key] = None THEN "KeyError" ELSE ""

storage_delete(k, s, key) ==
  IF k = "Dummy" THEN s ELSE [s EXCEPT ![key] = None]

\* ------------------------------------------------------------------ client
\* smsdrop.py keys the token by the password, client.py by one constant.
token_storage_key(c) ==
  IF impl = "smsdrop"
    THEN IF password[c] = "p1" THEN "bearer_token_p1" ELSE "bearer_token_p2"
    ELSE ACCESS_TOKEN_STORAGE_KEY

Ev(e, a, b) == [ev |-> e, a |-> a, b |-> b]

Append1(f, c, e) == [f EXCEPT ![c] = Append(@, e)]

\* An exception leaves the call (or the constructor): no Client object exists
\* after a failed __post_init__.
Raise(c, err) ==
  /\ pc' = [pc EXCEPT ![c] = IF attempt[c] = 0 THEN "dead" ELSE "idle"]
  /\ result' = [result EXCEPT ![c] = err]

\* ---------------------------------------------------------------- Campaign
Bodies ==
  [id : {"c1", "c2"}, title : {"t1"}, status : {"PENDING", "SENDING"},
   delivery_percentage : {"0"}, message_count : {"1"}, sms_count : {"2"}]
  \cup [id : {"c1", "c2"}, status : {"SENDING"}, sms_count : {"2"}]
NoBody == [responsecode |-> NONE]

\* Campaign(message=..., sender=..., recipient_list=...): _id has no default
\* and is not set by __init__.
Messages == {"m1", "m2"}

NewCampaign(m) ==
  [message |-> m, sender |-> "s1", recipient_list |-> <<"r1">>, title |-> NONE,
   _status |-> "PENDING", _delivery_percentage |-> "0", _message_count |-> "1",
   _sms_count |-> "1", _id |-> UNSET]

dict_get(data, k) == IF k \in DOMAIN data THEN data[k] ELSE NONE

\* update_private reading the keys with their underscore (data.get(f)).
update_private_underscore(cp, data) ==
  [cp EXCEPT !._id = dict_get(data, "_id"),
             !._sms_count = dict_get(data, "_sms_count"),
             !._message_count = dict_get(data, "_message_count"),
             !._delivery_percentage = dict_get(data, "_delivery_percentage"),
             !._status = dict_get(data, "_status")]

\* The loop of Campaign.update over campaign_private_fields.
update_private(cp, data) ==
  [cp EXCEPT !._id = dict_get(data, "id"),
             !._sms_count = dict_get(data, "sms_count"),
             !._message_count = dict_get(data, "message_count"),
             !._delivery_percentage = dict_get(data, "delivery_percentage"),
             !._status = dict_get(data, "status")]

\* Campaign.update(data): the object afterwards and the error raised;
\* data["title"] raises KeyError after the private fields were assigned.
update(cp, data) ==
  IF "title" \in DOMAIN data
    THEN [cp |-> [update_private(cp, data) EXCEPT !.title = data["title"]], err |-> ""]
    ELSE [cp |-> update_private(cp, data), err |-> "KeyError"]

\* ------------------------------------------ Campaign: construction, as_dict
\* A sender is a string: its length and whether it is made of digits only.
Senders == [len : 0..MaxSenderLen, numeric : BOOLEAN]
RecipientLists ==
  {<<>>} \cup {[i \in 1..n |-> "r1"] : n \in 1..MaxRecipients}
Delays == {DeferByNone, 0, 60}

\* Python truthiness of the two defer fields: a datetime and a non-empty string
\* are true, None is false, and of the integers 0 is false.
truthy(v) == v # NONE
truthy_int(n) == n # DeferByNone /\ n # 0

\* datetime.datetime.fromisoformat / datetime.isoformat on the one date used.
fromisoformat(t) == IF t = "2022-01-01T00:00:00" THEN "datetime(2022,1,1)" ELSE NONE
isoformat(d) == IF d = "datetime(2022,1,1)" THEN "2022-01-01T00:00:00" ELSE NONE

\* The dataclass __init__: every argument is stored as given; the private
\* fields take their defaults and _id stays unassigned.
Campaign_init(a) ==
  [message |-> "m1", sender |-> a.sender, recipient_list |-> a.recipient_list,
   title |-> NONE, defer_until |-> a.defer_until, defer_by |-> a.defer_by,
   _status |-> "PENDING", _delivery_percentage |-> "0", _message_count |-> "1",
   _sms_count |-> "1", _id |-> UNSET]

\* Campaign.__post_init__: assert not (self.defer_until and self.defer_by).
Campaign_post_init(cp) ==
  IF truthy(cp.defer_until) /\ truthy_int(cp.defer_by) THEN "AssertionError" ELSE ""

NoCampaign == Campaign_init([sender |-> [len |-> 0, numeric |-> FALSE],
                             recipient_list |-> <<>>, defer_until |-> NONE,
                             defer_by |-> DeferByNone])

\* Campaign(...): the object, or the error of __post_init__.
Campaign(a) ==
  LET cp == Campaign_init(a)
  IN [err |-> Campaign_post_init(cp),
      cp |-> IF Campaign_post_init(cp) = "" THEN cp ELSE NoCampaign]

\* Campaign.from_response(data): the constructor runs on the response's fields,
\* defer_until still being the ISO string, and the parsed date is assigned after.
from_response(a) ==
  LET made == Campaign(a)
  IN [err |-> made.err,
      cp |-> IF made.err = ""
               THEN [made.cp EXCEPT !._id = "c1",
                                    !.defer_until = fromisoformat(a.defer_until)]
               ELSE NoCampaign]

\* as_dict(only=campaign_public_fields): the public fields that are not None,
\* defer_until in ISO format (message_type, always sent, is left out).
as_dict(cp) ==
  LET keys == {"message", "sender", "recipient_list"}
              \cup (IF cp.title # NONE THEN {"title"} ELSE {})
              \cup (IF cp.defer_until # NONE THEN {"defer_until"} ELSE {})
              \cup (IF cp.defer_by # DeferByNone THEN {"defer_by"} ELSE {})
  IN [k \in keys |->
        CASE k = "message" -> cp.message
          [] k = "sender" -> cp.sender
          [] k = "recipient_list" -> cp.recipient_list
          [] k = "title" -> cp.title
          [] k = "defer_until" -> isoformat(cp.defer_until)
          [] k = "defer_by" -> cp.defer_by]

\* launch_campaign of smsdrop.py after _send_request returned `status`, `content`.
launch_campaign(cp, status, content) ==
  IF status = CREATED
    THEN LET u == update(cp, [id |-> content["id"]])
         IN [cp |-> u.cp,
             err |-> IF u.err # "" THEN u.err ELSE "InsufficientSmsError"]
    ELSE LET u == update(cp, content)
         IN [cp |-> u.cp, err |-> IF u.err # "" THEN u.err ELSE "ok"]

\* launch_campaign of client.py: the input object is left alone.
client_launch_campaign(cp, status, content) ==
  [cp |-> cp, err |-> IF status = CREATED THEN "InsufficientSmsError" ELSE "ok"]

\* read_campaign with the 404 test left out.
read_campaign_strict(status) == "AttributeError"

\* read_campaign of smsdrop.py: 404 gives None; any other response goes to
\* Campaign.from_dict, which models.py does not define (AttributeError).
read_campaign(status) == IF status = NOT_FOUND THEN "None" ELSE "AttributeError"

\* read_campaign of client.py: `codes` is not imported there, so the test of
\* the status raises NameError whatever the response.
client_read_campaign(status) == "NameError"

\* refresh_campaign after read_campaign's request returned `status`: None has
\* no as_dict (AttributeError), and read_campaign's own error passes through;
\* the object is not touched on either way.
refresh_campaign_update(cp, status) ==
  LET r == read_campaign(status)
  IN [cp |-> cp, err |-> IF r = "None" THEN "AttributeError" ELSE r]

\* The statuses the API answers a method with (besides 401, 422 and 5xx).
StatusesFor(o) ==
  CASE o = "read_me" -> {OK, UNAUTHORIZED, SERVER_ERROR}
    [] o \in {"read_campaign", "refresh_campaign"} ->
         {OK, NOT_FOUND, UNAUTHORIZED, SERVER_ERROR}
    [] o = "launch_campaign" -> {OK, CREATED, UNAUTHORIZED, UNPROCESSABLE_ENTITY, SERVER_ERROR}

BodiesFor(o, st) ==
  IF \/ o = "launch_campaign" /\ st \in {OK, CREATED}
     \/ o = "refresh_campaign" /\ st = OK
    THEN Bodies ELSE {NoBody}

\* -------------------------------------------------------------------- Init
NoCall == "none"

\* The key the first client's token lives under.
FirstKey(i) == IF i = "smsdrop" THEN "bearer_token_p1" ELSE ACCESS_TOKEN_STORAGE_KEY

InitCommon ==
  /\ impl \in Impls
  /\ kind \in Kinds
  \* a store that outlives the process, or a dict the caller filled, may already
  \* hold a token (token 1, issued before the run began)
  /\ \E pre \in BOOLEAN :
       /\ store = [k \in Keys |->
                     IF pre /\ kind # "Dummy" /\ k = FirstKey(impl) THEN 1 ELSE None]
       /\ nextTok = IF pre /\ kind # "Dummy" THEN 2 ELSE 1
       \* that token was issued to the first client's account
       /\ issuedTo = [t \in 1..(MaxTokens + 1) |->
                        IF pre /\ kind # "Dummy" /\ t = 1 THEN "e1" ELSE "nobody"]
  /\ attempt = [c \in Clients |-> 0]
  /\ hdr = [c \in Clients |-> NoHeader]
  /\ tmp = [c \in Clients |-> None]
  /\ op = [c \in Clients |-> NoCall]
  /\ result = [c \in Clients |-> "none"]
  /\ campaign = [c \in Clients |-> NewCampaign("m1")]
  /\ sent = [c \in Clients |-> NoBody]
  /\ returned = [c \in Clients |-> 0]
  /\ lastWrite = store
  /\ trace = [c \in Clients |-> <<>>]
  /\ logins = [c \in Clients |-> 0]
  /\ targets = [c \in Clients |-> 0]
  /\ nCalls = 0

NoArgs == [via |-> "none", sender |-> [len |-> 0, numeric |-> FALSE],
           recipient_list |-> <<>>, defer_until |-> NONE, defer_by |-> DeferByNone]
NoObj == [err |-> "none", cp |-> NoCampaign]
NoPayload == [sent |-> FALSE, json |-> as_dict(NoCampaign)]

\* No Campaign is under construction.
InitNoCampaign ==
  /\ args = NoArgs
  /\ obj = NoObj
  /\ payload = NoPayload

\* One caller.
Init ==
  /\ InitCommon
  /\ methods = Ops
  /\ email = [c \in Clients |-> "e1"]
  /\ password = [c \in Clients |-> "p1"]
  /\ pc = [c \in Clients |-> IF c = 1 THEN "new" ELSE "off"]
  /\ InitNoCampaign

\* Two callers on one store, for the same account or for two accounts.
InitShared ==
  /\ InitCommon
  /\ methods = {"read_me", "refresh_campaign"}
  /\ \E a \in {<<"e1", "p1">>, <<"e2", "p1">>, <<"e2", "p2">>} :
       /\ email = [c \in Clients |-> IF c = 1 THEN "e1" ELSE a[1]]
       /\ password = [c \in Clients |-> IF c = 1 THEN "p1" ELSE a[2]]
  /\ pc = [c \in Clients |-> "new"]
  /\ InitNoCampaign

\* ------------------------------------------------- smsdrop.py: Client
\* Client.__post_init__: smsdrop.py logs in at once, client.py only builds the
\* http client and the token getter.
post_init(c) ==
  /\ pc[c] = "new"
  /\ \/ /\ impl = "smsdrop"
        /\ pc' = [pc EXCEPT ![c] = "rf_login"]
        /\ result' = result
     \/ /\ impl = "client"
        /\ pc' = [pc EXCEPT ![c] = "idle"]
        /\ result' = [result EXCEPT ![c] = "constructed"]
  /\ UNCHANGED <<issuedTo, args, obj, payload, impl, kind, methods, returned, lastWrite, store, email, password, attempt, hdr, tmp, op,
                 campaign, sent, trace, logins, targets, nextTok, nCalls>>

\* Client._login: 400 raises BadCredentialsError, 200 returns the token, any
\* other status falls off the end of the function and returns None.
login(c) ==
  /\ pc[c] = "rf_login"
  /\ nextTok <= MaxTokens
  /\ \E st \in LoginStatuses :
       /\ logins' = [logins EXCEPT ![c] = @ + 1]
       /\ trace' = Append1(trace, c, Ev("login", st, IF st = OK THEN nextTok ELSE None))
       /\ \/ /\ st = BAD_REQUEST
             /\ Raise(c, "BadCredentialsError")
             /\ UNCHANGED <<tmp, nextTok, issuedTo>>
          \/ /\ st = OK
             /\ tmp' = [tmp EXCEPT ![c] = nextTok]
             /\ nextTok' = nextTok + 1
             /\ issuedTo' = [issuedTo EXCEPT ![nextTok] = email[c]]
             /\ pc' = [pc EXCEPT ![c] = "rf_set"]
             /\ result' = result
          \/ /\ st \notin {BAD_REQUEST, OK}
             /\ tmp' = [tmp EXCEPT ![c] = None]
             /\ pc' = [pc EXCEPT ![c] = "rf_set"]
             /\ UNCHANGED <<result, nextTok, issuedTo>>
  /\ UNCHANGED <<args, obj, payload, impl, kind, methods, returned, lastWrite, store, email, password, attempt, hdr, op,
                 campaign, sent, targets, nCalls>>

\* Client._set_token: storage.set(key, new_token, ex=TOKEN_LIFETIME).
set_token(c) ==
  /\ pc[c] = "rf_set"
  /\ LET err == storage_set_error(kind, 2, {"ex"}, tmp[c]) IN
       \/ /\ err # ""
          /\ Raise(c, err)
          /\ trace' = Append1(trace, c, Ev("set", tmp[c], 0))
          /\ UNCHANGED <<store, lastWrite>>
       \/ /\ err = ""
          /\ store' = storage_set(kind, store, token_storage_key(c), tmp[c])
          /\ lastWrite' = [lastWrite EXCEPT ![token_storage_key(c)] = tmp[c]]
          /\ trace' = Append1(trace, c, Ev("set", tmp[c], 1))
          /\ pc' = [pc EXCEPT ![c] = "rf_hdr"]
          /\ result' = result
  /\ UNCHANGED <<issuedTo, args, obj, payload, impl, kind, methods, returned, email, password, attempt, hdr, tmp, op,
                 campaign, sent, logins, targets, nextTok, nCalls>>

\* The last line of Client._refresh_token: the header is built from the token
\* read back from the storage, not from the local variable.
refresh_token_header(c) ==
  /\ pc[c] = "rf_hdr"
  /\ hdr' = [hdr EXCEPT ![c] = storage_get(kind, store, token_storage_key(c))]
  /\ trace' = Append1(trace, c, Ev("hdr", storage_get(kind, store, token_storage_key(c)), 0))
  /\ \/ /\ attempt[c] = 0
        /\ pc' = [pc EXCEPT ![c] = "idle"]
        /\ result' = [result EXCEPT ![c] = "constructed"]
     \/ /\ attempt[c] > 0
        /\ pc' = [pc EXCEPT ![c] = "send"]
        /\ result' = result
  /\ UNCHANGED <<issuedTo, args, obj, payload, impl, kind, methods, returned, lastWrite, store, email, password, attempt, tmp, op,
                 campaign, sent, logins, targets, nextTok, nCalls>>

\* A public method is called on a constructed client.
call(c) ==
  /\ pc[c] = "idle"
  /\ nCalls < MaxCalls
  /\ \E o \in methods :
       /\ o = "refresh_campaign" => impl = "smsdrop"
       /\ op' = [op EXCEPT ![c] = o]
       /\ pc' = [pc EXCEPT ![c] = IF o = "refresh_campaign" THEN "refresh"
                                 ELSE IF impl = "smsdrop" THEN "check" ELSE "send"]
       /\ \E m \in Messages :
            campaign' = [campaign EXCEPT ![c] =
                           IF o = "launch_campaign" THEN NewCampaign(m) ELSE @]
  /\ nCalls' = nCalls + 1
  /\ attempt' = [attempt EXCEPT ![c] = 1]
  /\ trace' = [trace EXCEPT ![c] =
                 <<Ev("call", storage_get(kind, store, token_storage_key(c)), hdr[c])>>]
  /\ returned' = [returned EXCEPT ![c] = 0]
  /\ result' = [result EXCEPT ![c] = "pending"]
  /\ sent' = [sent EXCEPT ![c] = NoBody]
  /\ UNCHANGED <<issuedTo, args, obj, payload, impl, kind, methods, lastWrite, store, email, password, hdr, tmp, logins,
                 targets, nextTok>>

\* refresh_campaign, before read_campaign is called: `assert Campaign.id` tests
\* the property object of the class, which is always true; campaign.id then
\* reads self._id, an attribute a Campaign that was never updated does not have.
refresh_campaign(c) ==
  /\ pc[c] = "refresh"
  /\ \/ /\ campaign[c]._id = UNSET
        /\ Raise(c, "AttributeError")
     \/ /\ campaign[c]._id # UNSET
        /\ pc' = [pc EXCEPT ![c] = "check"]
        /\ result' = result
  /\ UNCHANGED <<issuedTo, args, obj, payload, impl, kind, methods, returned, lastWrite, store, email, password,
                 attempt, hdr, tmp, op, campaign, sent, trace, logins, targets, nextTok, nCalls>>

\* smsdrop.py _send_request: `if not self._token: self._refresh_token()`.
check_token(c) ==
  /\ pc[c] = "check"
  /\ LET v == storage_get(kind, store, token_storage_key(c)) IN
       /\ trace' = Append1(trace, c, Ev("get", v, 0))
       /\ pc' = [pc EXCEPT ![c] = IF v = None THEN "rf_login" ELSE "send"]
  /\ UNCHANGED <<issuedTo, args, obj, payload, impl, kind, methods, returned, lastWrite, store, email, password, attempt, hdr, tmp, op, result,
                 campaign, sent, logins, targets, nextTok, nCalls>>

\* What the public method does with the response _send_request returned.
finish(c, st, body) ==
  LET r == CASE op[c] = "launch_campaign" ->
                  IF impl = "smsdrop" THEN launch_campaign(campaign[c], st, body)
                  ELSE client_launch_campaign(campaign[c], st, body)
             [] op[c] = "refresh_campaign" -> refresh_campaign_update(campaign[c], st)
             [] op[c] = "read_campaign" ->
                  [cp |-> campaign[c],
                   err |-> IF impl = "smsdrop" THEN read_campaign(st)
                           ELSE client_read_campaign(st)]
             [] OTHER -> [cp |-> campaign[c], err |-> "ok"]
  IN /\ campaign' = [campaign EXCEPT ![c] = r.cp]
     /\ sent' = [sent EXCEPT ![c] = body]
     /\ returned' = [returned EXCEPT ![c] = st]
     /\ result' = [result EXCEPT ![c] = r.err]
     /\ pc' = [pc EXCEPT ![c] = "idle"]

\* _send_request returning a 5xx response instead of raising ServerError.
send_request_returns5xx(c) ==
  /\ pc[c] = "send"
  /\ \E st \in StatusesFor(op[c]) : \E body \in BodiesFor(op[c], st) :
       /\ targets' = [targets EXCEPT ![c] = @ + 1]
       /\ trace' = Append1(trace, c, Ev("target", hdr[c], st))
       /\ \/ /\ st = UNAUTHORIZED
             /\ pc' = [pc EXCEPT ![c] = IF impl = "smsdrop" THEN "del" ELSE "gt_get"]
             /\ UNCHANGED <<result, campaign, sent, returned>>
          \/ /\ st = UNPROCESSABLE_ENTITY
             /\ Raise(c, "ValidationError")
             /\ UNCHANGED <<campaign, sent, returned>>
          \/ /\ st \notin {UNAUTHORIZED, UNPROCESSABLE_ENTITY}
             /\ finish(c, st, body)
  /\ UNCHANGED <<issuedTo, args, obj, payload, impl, kind, methods, lastWrite, store, email, password, attempt, hdr, tmp, op,
                 logins, nextTok, nCalls>>

\* _send_request: the request goes out with the http client's headers, and the
\* status of the answer decides (both versions share these lines).
send_request(c) ==
  /\ pc[c] = "send"
  /\ \E st \in StatusesFor(op[c]) : \E body \in BodiesFor(op[c], st) :
       /\ targets' = [targets EXCEPT ![c] = @ + 1]
       /\ trace' = Append1(trace, c, Ev("target", hdr[c], st))
       /\ \/ /\ st = UNAUTHORIZED
             /\ pc' = [pc EXCEPT ![c] = IF impl = "smsdrop" THEN "del" ELSE "gt_get"]
             /\ UNCHANGED <<result, campaign, sent, returned>>
          \/ /\ st = SERVER_ERROR
             /\ Raise(c, "ServerError")
             /\ UNCHANGED <<campaign, sent, returned>>
          \/ /\ st = UNPROCESSABLE_ENTITY
             /\ Raise(c, "ValidationError")
             /\ UNCHANGED <<campaign, sent, returned>>
          \/ /\ st \notin {UNAUTHORIZED, SERVER_ERROR, UNPROCESSABLE_ENTITY}
             /\ finish(c, st, body)
  /\ UNCHANGED <<issuedTo, args, obj, payload, impl, kind, methods, lastWrite, store, email, password, attempt, hdr, tmp, op,
                 logins, nextTok, nCalls>>

\* retry without the stop condition.
retry_unbounded(c, again) ==
  /\ attempt' = [attempt EXCEPT ![c] = @ + 1]
  /\ pc' = [pc EXCEPT ![c] = again]
  /\ result' = result

\* tenacity: BadTokenError is retried until stop_after_attempt, then reraised.
retry(c, again) ==
  IF attempt[c] < stop_after_attempt
    THEN /\ attempt' = [attempt EXCEPT ![c] = @ + 1]
         /\ pc' = [pc EXCEPT ![c] = again]
         /\ result' = result
    ELSE /\ Raise(c, "BadTokenError")
         /\ attempt' = attempt

\* delete_token with the storage.delete line forgotten.
delete_token_kept(c) ==
  /\ pc[c] = "del"
  /\ trace' = Append1(trace, c, Ev("delete", storage_get(kind, store, token_storage_key(c)), 1))
  /\ store' = store
  /\ retry(c, "check")
  /\ UNCHANGED <<issuedTo, args, obj, payload, impl, kind, methods, returned, lastWrite, email, password, hdr, tmp, op,
                 campaign, sent, logins, targets, nextTok, nCalls>>

\* smsdrop.py 401 branch: storage.delete(key), raise BadTokenError.
delete_token(c) ==
  /\ pc[c] = "del"
  /\ LET key == token_storage_key(c)
         err == storage_delete_error(kind, store, key) IN
       /\ trace' = Append1(trace, c, Ev("delete", storage_get(kind, store, key),
                                         IF err = "" THEN 1 ELSE 0))
       /\ \/ /\ err # ""
             /\ Raise(c, err)
             /\ UNCHANGED <<store, attempt>>
          \/ /\ err = ""
             /\ store' = storage_delete(kind, store, key)
             /\ retry(c, "check")
  /\ UNCHANGED <<issuedTo, args, obj, payload, impl, kind, methods, returned, lastWrite, email, password, hdr, tmp, op,
                 campaign, sent, logins, targets, nextTok, nCalls>>

\* ------------------------------------------------- client.py: Client
\* get_access_token going on to the delete whether or not it found a token.
get_access_token_unchecked(c) ==
  /\ pc[c] = "gt_get"
  /\ LET v == storage_get(kind, store, ACCESS_TOKEN_STORAGE_KEY) IN
       /\ trace' = Append1(trace, c, Ev("get", v, 0))
       /\ hdr' = [hdr EXCEPT ![c] = v]
       /\ pc' = [pc EXCEPT ![c] = "gt_del"]
  /\ UNCHANGED <<issuedTo, args, obj, payload, impl, kind, methods, returned, lastWrite, store, email, password, attempt, tmp, op, result,
                 campaign, sent, logins, targets, nextTok, nCalls>>

\* utils.get_access_token, first lines: a cached token is returned as it is.
get_access_token(c) ==
  /\ pc[c] = "gt_get"
  /\ LET v == storage_get(kind, store, ACCESS_TOKEN_STORAGE_KEY) IN
       /\ trace' = Append1(trace, c, Ev("get", v, 0))
       /\ \/ /\ v # None
             /\ hdr' = [hdr EXCEPT ![c] = v]
             /\ pc' = [pc EXCEPT ![c] = "gt_del"]
          \/ /\ v = None
             /\ hdr' = hdr
             /\ pc' = [pc EXCEPT ![c] = "gt_login"]
  /\ UNCHANGED <<issuedTo, args, obj, payload, impl, kind, methods, returned, lastWrite, store, email, password, attempt, tmp, op, result,
                 campaign, sent, logins, targets, nextTok, nCalls>>

\* utils.get_access_token, the login request: 400 raises BadCredentialsError,
\* any status but 200 fails the assert.
get_access_token_login(c) ==
  /\ pc[c] = "gt_login"
  /\ nextTok <= MaxTokens
  /\ \E st \in LoginStatuses :
       /\ logins' = [logins EXCEPT ![c] = @ + 1]
       /\ trace' = Append1(trace, c, Ev("login", st, IF st = OK THEN nextTok ELSE None))
       /\ \/ /\ st = BAD_REQUEST
             /\ Raise(c, "BadCredentialsError")
             /\ UNCHANGED <<tmp, nextTok, issuedTo>>
          \/ /\ st = OK
             /\ tmp' = [tmp EXCEPT ![c] = nextTok]
             /\ nextTok' = nextTok + 1
             /\ issuedTo' = [issuedTo EXCEPT ![nextTok] = email[c]]
             /\ pc' = [pc EXCEPT ![c] = "gt_set"]
             /\ result' = result
          \/ /\ st \notin {BAD_REQUEST, OK}
             /\ Raise(c, "AssertionError")
             /\ UNCHANGED <<tmp, nextTok, issuedTo>>
  /\ UNCHANGED <<args, obj, payload, impl, kind, methods, returned, lastWrite, store, email, password, attempt, hdr, op,
                 campaign, sent, targets, nCalls>>

\* utils.get_access_token, last lines: storage.set(token) passes one argument;
\* what a store that accepts it keeps is the token under no usable key.
get_access_token_set(c) ==
  /\ pc[c] = "gt_set"
  /\ LET err == storage_set_error(kind, 1, {}, tmp[c]) IN
       \/ /\ err # ""
          /\ Raise(c, err)
          /\ trace' = Append1(trace, c, Ev("set", tmp[c], 0))
          /\ hdr' = hdr
       \/ /\ err = ""
          /\ trace' = Append1(trace, c, Ev("set", tmp[c], 1))
          /\ hdr' = [hdr EXCEPT ![c] = tmp[c]]
          /\ pc' = [pc EXCEPT ![c] = "gt_del"]
          /\ result' = result
  /\ UNCHANGED <<issuedTo, args, obj, payload, impl, kind, methods, returned, lastWrite, store, email, password, attempt, tmp, op,
                 campaign, sent, logins, targets, nextTok, nCalls>>

\* client.py 401 branch, after the header was set: storage.delete, raise BadTokenError.
client_delete_token(c) ==
  /\ pc[c] = "gt_del"
  /\ LET key == ACCESS_TOKEN_STORAGE_KEY
         err == storage_delete_error(kind, store, key) IN
       /\ trace' = Append1(trace, c, Ev("delete", storage_get(kind, store, key),
                                         IF err = "" THEN 1 ELSE 0))
       /\ \/ /\ err # ""
             /\ Raise(c, err)
             /\ UNCHANGED <<store, attempt>>
          \/ /\ err = ""
             /\ store' = storage_delete(kind, store, key)
             /\ retry(c, "send")
  /\ UNCHANGED <<issuedTo, args, obj, payload, impl, kind, methods, returned, lastWrite, email, password, hdr, tmp, op,
                 campaign, sent, logins, targets, nextTok, nCalls>>

\* ------------------------------------------------------------ environment
Busy(c) == pc[c] \notin {"new", "off", "idle", "dead"}

\* Redis drops a key when its lifetime (ex=TOKEN_LIFETIME, about an hour) is
\* over: between calls, a call being far shorter than the lifetime.
expire ==
  /\ kind = "Redis"
  /\ \A c \in Clients : ~Busy(c)
  /\ \E k \in Keys :
       /\ store[k] # None
       /\ store' = [store EXCEPT ![k] = None]
       /\ lastWrite' = [lastWrite EXCEPT ![k] = None]
  /\ UNCHANGED <<issuedTo, args, obj, payload, impl, kind, methods, returned, email, password, pc, attempt, hdr, tmp, op, result,
                 campaign, sent, trace, logins, targets, nextTok, nCalls>>

Next ==
  \/ \E c \in Clients :
       \/ post_init(c)
       \/ login(c)
       \/ set_token(c)
       \/ refresh_token_header(c)
       \/ call(c)
       \/ refresh_campaign(c)
       \/ check_token(c)
       \/ send_request(c)
       \/ delete_token(c)
       \/ get_access_token(c)
       \/ get_access_token_login(c)
       \/ get_access_token_set(c)
       \/ client_delete_token(c)
  \/ expire

Spec == Init /\ [][Next]_vars

SpecShared == InitShared /\ [][Next]_vars

\* --------------------------------------------------- Campaign on its own
clientVars == <<impl, kind, store, email, password, pc, attempt, hdr, tmp, op, result,
                campaign, sent, returned, lastWrite, trace, logins, targets, nextTok,
                methods, nCalls, issuedTo>>

\* A Campaign is about to be made, by the caller (datetime, int) or from a
\* response of the API (ISO string, int); no client is involved.
InitCampaign ==
  /\ impl = "smsdrop"
  /\ kind = "SimpleDict"
  /\ store = [k \in Keys |-> None]
  /\ nextTok = 1
  /\ issuedTo = [t \in 1..(MaxTokens + 1) |-> "nobody"]
  /\ attempt = [c \in Clients |-> 0]
  /\ hdr = [c \in Clients |-> NoHeader]
  /\ tmp = [c \in Clients |-> None]
  /\ op = [c \in Clients |-> NoCall]
  /\ result = [c \in Clients |-> "none"]
  /\ campaign = [c \in Clients |-> NewCampaign("m1")]
  /\ sent = [c \in Clients |-> NoBody]
  /\ returned = [c \in Clients |-> 0]
  /\ lastWrite = store
  /\ trace = [c \in Clients |-> <<>>]
  /\ logins = [c \in Clients |-> 0]
  /\ targets = [c \in Clients |-> 0]
  /\ nCalls = 0
  /\ methods = Ops
  /\ email = [c \in Clients |-> "e1"]
  /\ password = [c \in Clients |-> "p1"]
  /\ pc = [c \in Clients |-> "off"]
  /\ \E via \in {"init", "response"} : \E sd \in Senders : \E rl \in RecipientLists :
       \E db \in Delays :
       \E du \in {NONE, IF via = "init" THEN "datetime(2022,1,1)" ELSE "2022-01-01T00:00:00"} :
         args = [via |-> via, sender |-> sd, recipient_list |-> rl,
                 defer_until |-> du, defer_by |-> db]
  /\ obj = NoObj
  /\ payload = NoPayload

\* Campaign(message=..., sender=..., recipient_list=..., defer_until=..., defer_by=...).
Campaign_new ==
  /\ args.via = "init"
  /\ obj.err = "none"
  /\ obj' = Campaign(args)
  /\ UNCHANGED <<args, payload, clientVars>>

\* Campaign.from_response(data).
Campaign_from_response ==
  /\ args.via = "response"
  /\ obj.err = "none"
  /\ obj' = from_response(args)
  /\ UNCHANGED <<args, payload, clientVars>>

\* launch_campaign, first two lines: the payload of the object goes to
\* _send_request, which posts it as it is.
launch_payload ==
  /\ obj.err = ""
  /\ ~payload.sent
  /\ payload' = [sent |-> TRUE, json |-> as_dict(obj.cp)]
  /\ UNCHANGED <<args, obj, clientVars>>

NextCampaign ==
  \/ Campaign_new
  \/ Campaign_from_response
  \/ launch_payload

SpecCampaign == InitCampaign /\ [][NextCampaign]_vars

\* ==================================================================== claims
IsTarget(x) == x.ev = "target"
TargetsOf(c) == SelectSeq(trace[c], IsTarget)
EvIdx(c, e) == {i \in DOMAIN trace[c] : trace[c][i].ev = e}
Count(c, e) == Cardinality(EvIdx(c, e))

\* A public call of c has ended (returned or raised).
Done(c) == pc[c] = "idle" /\ result[c] \notin {"none", "constructed", "pending"}
\* The value the store held under c's key when the current call began.
CachedAtCall(c) == trace[c][1].a
LoginsOK(c) == \A i \in EvIdx(c, "login") : trace[c][i].a = OK

\* The call of c met 401 on its first target attempt and 200 on its second.
Recovered(c) ==
  /\ Done(c)
  /\ Len(TargetsOf(c)) >= 2
  /\ TargetsOf(c)[1].b = UNAUTHORIZED
  /\ TargetsOf(c)[2].b = OK

\* C1: in smsdrop.py, a call that starts with a cached token and whose target is
\* answered 401 then 200 returns the 200 response after exactly 2 target requests
\* and 1 re-login; on the first call of a client that makes 2 logins and 2 target
\* requests over the client's life.
C1_RetryOnceThenSuccess ==
  \A c \in Clients :
    (impl = "smsdrop" /\ Recovered(c) /\ CachedAtCall(c) # None) =>
      /\ returned[c] = OK
      /\ Count(c, "target") = 2
      /\ Count(c, "login") = 1
      /\ (nCalls = 1 => logins[c] = 2 /\ targets[c] = 2)

C1_Witness ==
  \E c \in Clients :
    /\ impl = "smsdrop" /\ Recovered(c) /\ CachedAtCall(c) # None
    /\ nCalls = 1 /\ logins[c] = 2 /\ targets[c] = 2 /\ result[c] = "ok"

\* C2: no call sends a third target request, and a call whose target was answered
\* 401 on both attempts ends with BadTokenError.
C2_TwoAttemptsThenBadToken ==
  \A c \in Clients :
    /\ Count(c, "target") <= 2
    /\ (/\ Done(c)
        /\ LoginsOK(c)
        /\ Len(TargetsOf(c)) = 2
        /\ TargetsOf(c)[1].b = UNAUTHORIZED
        /\ TargetsOf(c)[2].b = UNAUTHORIZED) => result[c] = "BadTokenError"

\* C3: a call that starts with no token in the store, whose login returns a token
\* and whose target is not answered 401, sends exactly one login request and then
\* exactly one target request.
C3_LoginThenTarget ==
  \A c \in Clients :
    (/\ Done(c)
     /\ CachedAtCall(c) = None
     /\ LoginsOK(c)
     /\ \A i \in EvIdx(c, "target") : trace[c][i].b # UNAUTHORIZED) =>
      /\ Count(c, "login") = 1
      /\ Count(c, "target") = 1
      /\ \A l \in EvIdx(c, "login") : \A t \in EvIdx(c, "target") : l < t

\* C4: whenever a call sends its retry, the token was deleted, then a login
\* request was sent, both between the rejected request and the retry, and the
\* retry carries the token of that login and not the header just rejected.
C4_DeleteLoginRetry ==
  \A c \in Clients : \A i1, i2 \in EvIdx(c, "target") :
    i1 < i2 =>
      /\ \E d \in EvIdx(c, "delete") : \E l \in EvIdx(c, "login") :
           /\ i1 < d /\ d < l /\ l < i2
           /\ (trace[c][l].a = OK => trace[c][i2].a = trace[c][l].b)
      /\ trace[c][i2].a # trace[c][i1].a

\* C5: right after a login that returned a token and the store call that follows
\* it, the store holds that token under the client's key.
C5_StoreHoldsLoginToken ==
  \A c \in Clients :
    (/\ trace[c] # <<>>
     /\ trace[c][Len(trace[c])].ev = "set"
     /\ trace[c][Len(trace[c])].a # None) =>
      storage_get(kind, store, token_storage_key(c)) = trace[c][Len(trace[c])].a

\* C6 as stated: a call makes at most two round trips.
C6_AtMostTwoRoundTrips ==
  \A c \in Clients : attempt[c] > 0 => Count(c, "login") + Count(c, "target") <= 2

\* C6 amended: a call makes at most four round trips, at most two logins and at
\* most two target requests.
C6_AtMostFourRoundTrips ==
  \A c \in Clients :
    attempt[c] > 0 => Count(c, "login") <= 2 /\ Count(c, "target") <= 2

C6_Witness ==
  \E c \in Clients : Done(c) /\ Count(c, "login") = 2 /\ Count(c, "target") = 2

\* C7: two callers of one account on one store whose first target attempts were
\* both answered 401; the logins succeed and the service rejects no token issued
\* during these calls.
SameKey == token_storage_key(1) = token_storage_key(2)
IssuedBy(c) == {trace[c][i].b : i \in {j \in EvIdx(c, "login") : trace[c][j].a = OK}}
IssuedInCalls == UNION {IssuedBy(c) : c \in Clients}
Honoured(c) ==
  \A i \in EvIdx(c, "target") :
    /\ trace[c][i].b \in {OK, UNAUTHORIZED}
    /\ (trace[c][i].b = UNAUTHORIZED => trace[c][i].a \notin IssuedInCalls)
BothRejected ==
  /\ impl = "smsdrop"
  /\ kind # "Dummy"
  /\ SameKey
  /\ \A c \in Clients :
       /\ Done(c)
       /\ Len(TargetsOf(c)) >= 1
       /\ TargetsOf(c)[1].b = UNAUTHORIZED
       /\ LoginsOK(c)
       /\ Honoured(c)

\* C7: then both calls succeed and the store holds the token written last.
C7_BenignRace ==
  BothRejected =>
    /\ \A c \in Clients : result[c] = "ok"
    /\ store[token_storage_key(1)] = lastWrite[token_storage_key(1)]

\* C8: every store class accepts the get, set and delete calls the client
\* issues: no call of a store method fails on its signature.
C8_StoresAcceptClientCalls ==
  \A c \in Clients :
    /\ result[c] # "TypeError"
    /\ (pc[c] = "rf_set" => set_accepts(kind, 2, {"ex"}))

\* C9: launch_campaign of smsdrop.py answered 201 raises InsufficientSmsError,
\* and the campaign passed in carries the id of the response.
C9_InsufficientSmsKeepsId ==
  \A c \in Clients :
    (/\ impl = "smsdrop"
     /\ Done(c)
     /\ op[c] = "launch_campaign"
     /\ returned[c] = CREATED) =>
      /\ result[c] = "InsufficientSmsError"
      /\ campaign[c]._id = sent[c].id

\* C10: the step in which launch_campaign of smsdrop.py receives 200 with a full
\* campaign body leaves the campaign passed in with the id, status,
\* delivery_percentage, message_count and sms_count of the response, and with
\* its message, sender and recipient_list as they were.
IsCampaignBody(b) ==
  {"id", "title", "status", "delivery_percentage", "message_count", "sms_count"}
    \subseteq DOMAIN b
LaunchedOK(c) ==
  /\ impl = "smsdrop"
  /\ pc[c] = "send"
  /\ op[c] = "launch_campaign"
  /\ pc'[c] = "idle"
  /\ returned'[c] = OK
  /\ IsCampaignBody(sent'[c])
C10_LaunchUpdatesInPlace ==
  [][\A c \in Clients :
       LaunchedOK(c) =>
         /\ result'[c] = "ok"
         /\ campaign'[c]._id = sent'[c].id
         /\ campaign'[c]._status = sent'[c].status
         /\ campaign'[c]._delivery_percentage = sent'[c].delivery_percentage
         /\ campaign'[c]._message_count = sent'[c].message_count
         /\ campaign'[c]._sms_count = sent'[c].sms_count
         /\ campaign'[c].message = campaign[c].message
         /\ campaign'[c].sender = campaign[c].sender
         /\ campaign'[c].recipient_list = campaign[c].recipient_list]_vars

C10_Witness ==
  \E c \in Clients :
    /\ impl = "smsdrop" /\ Done(c) /\ op[c] = "launch_campaign"
    /\ returned[c] = OK /\ IsCampaignBody(sent[c]) /\ result[c] = "ok"
    /\ campaign[c]._id = "c2" /\ campaign[c]._status = "SENDING"
    /\ campaign[c]._sms_count = "2" /\ campaign[c].message = "m2"

\* C11: a target request answered 5xx ends the call with ServerError in that
\* very step: nothing follows it in the call (no retry, no login), the store,
\* the Authorization header and the login count are as before the answer, and
\* a call whose first target request is answered 5xx has sent exactly one.
Answered(c, st) ==
  /\ pc[c] = "send"
  /\ targets'[c] = targets[c] + 1
  /\ trace'[c][Len(trace'[c])].b = st
C11_ServerErrorNotRetried ==
  /\ [](\A c \in Clients : \A i \in EvIdx(c, "target") :
          trace[c][i].b = SERVER_ERROR =>
            /\ i = Len(trace[c])
            /\ pc[c] = "idle"
            /\ result[c] = "ServerError"
            /\ (TargetsOf(c)[1].b = SERVER_ERROR => Count(c, "target") = 1))
  /\ [][\A c \in Clients :
         Answered(c, SERVER_ERROR) =>
           /\ result'[c] = "ServerError"
           /\ pc'[c] = "idle"
           /\ store' = store
           /\ hdr' = hdr
           /\ logins' = logins
           /\ attempt' = attempt]_vars

C11_Witness ==
  \E c \in Clients :
    /\ Done(c) /\ result[c] = "ServerError"
    /\ Count(c, "target") = 1 /\ Count(c, "login") = 0
    /\ store[token_storage_key(c)] # None
    /\ hdr[c] = store[token_storage_key(c)]

\* C12: read_campaign of smsdrop.py whose target request is answered 404
\* returns None without an error in that very step, which leaves the store and
\* the header alone; when the first answer is the 404, one request was sent.
C12_NotFoundReturnsNone ==
  /\ [](\A c \in Clients :
          (/\ impl = "smsdrop"
           /\ Done(c)
           /\ op[c] = "read_campaign"
           /\ returned[c] = NOT_FOUND) =>
            /\ result[c] = "None"
            /\ (TargetsOf(c)[1].b = NOT_FOUND => Count(c, "target") = 1))
  /\ [][\A c \in Clients :
         (impl = "smsdrop" /\ op[c] = "read_campaign" /\ Answered(c, NOT_FOUND)) =>
           /\ result'[c] = "None"
           /\ returned'[c] = NOT_FOUND
           /\ pc'[c] = "idle"
           /\ store' = store
           /\ hdr' = hdr]_vars

C12_Witness ==
  \E c \in Clients :
    /\ impl = "smsdrop" /\ Done(c) /\ op[c] = "read_campaign"
    /\ returned[c] = NOT_FOUND /\ result[c] = "None"
    /\ Count(c, "target") = 1
    /\ store[token_storage_key(c)] # None

\* C13: a Campaign made with both defer_until and defer_by given (not None)
\* fails, and every Campaign that exists has at most one of the two set.
Made == obj.err = ""
C13_DeferExclusive ==
  /\ (Made => ~(args.defer_until # NONE /\ args.defer_by # DeferByNone))
  /\ (Made => ~(obj.cp.defer_until # NONE /\ obj.cp.defer_by # DeferByNone))

\* C14: no Campaign with an empty recipient_list is made, and launch_campaign
\* sends none.
C14_NoEmptyRecipients ==
  /\ (Made => Len(obj.cp.recipient_list) >= 1)
  /\ (payload.sent => Len(payload.json["recipient_list"]) >= 1)

\* C15: the constructor accepts an alphanumeric sender of n characters exactly
\* when n <= 11 (the other arguments being valid).
C15_SenderAtMost11 ==
  (/\ args.via = "init"
   /\ obj.err # "none"
   /\ ~args.sender.numeric
   /\ Len(args.recipient_list) >= 1
   /\ args.defer_by = DeferByNone) =>
     (Made <=> args.sender.len <= 11)

\* C16: refresh_campaign on a campaign that was never launched ends with
\* AssertionError and no target request; on a launched campaign whose read is
\* answered 200 it ends well with the object's status fields those of the answer.
C16_RefreshCampaign ==
  \A c \in Clients :
    (Done(c) /\ op[c] = "refresh_campaign") =>
      /\ (campaign[c]._id = UNSET =>
            result[c] = "AssertionError" /\ Count(c, "target") = 0)
      /\ (returned[c] = OK =>
            /\ result[c] = "ok"
            /\ campaign[c]._status = sent[c].status
            /\ campaign[c]._sms_count = sent[c].sms_count)

\* C17: two clients of different accounts (different email) on one store: every
\* token a client reads from the store, deletes from it or sends in a target
\* request was issued to its own account.
IsToken(v) == v \in 1..MaxTokens
C17_TokenPerAccount ==
  email[1] # email[2] =>
    \A c \in Clients : \A i \in DOMAIN trace[c] :
      (trace[c][i].ev \in {"get", "hdr", "delete", "target"} /\ IsToken(trace[c][i].a)) =>
        issuedTo[trace[c][i].a] = email[c]

\* C18: whenever a client is about to send a target request, the token in its
\* Authorization header (none when there is no header) is the one the store
\* holds under the client's key.
Carried(h) == IF h = NoHeader THEN None ELSE h
C18_HeaderIsCachedToken ==
  \A c \in Clients :
    pc[c] = "send" => Carried(hdr[c]) = storage_get(kind, store, token_storage_key(c))

====
